---- MODULE Spec2Model ----
(***************************************************************************)
(* Model of intercept/mdapi/intercept_mdapi.cpp: the MDAPI performance     *)
(* counter support of the OpenCL intercept layer.                          *)
(*                                                                         *)
(*   convertPropertiesToOCL1_2        property list -> bitfield            *)
(*   CLIntercept::initCustomPerfCounters                                   *)
(*   CLIntercept::createMDAPICommandQueue   (bitfield and list overloads)  *)
(*   CLIntercept::getMDAPICountersFromStream                               *)
(*   CLIntercept::getMDAPICountersFromEvent                                *)
(*                                                                         *)
(* Every member function is modelled as the steps of a thread, one step    *)
(* per access to shared state, so that the same actions serve the          *)
(* sequential specification (Spec: calls do not overlap) and the           *)
(* concurrent one (SpecConc: steps of different threads interleave).       *)
(***************************************************************************)
EXTENDS Integers, Sequences, FiniteSets, TLC

(***************************************************************************)
(* Bounds of the model.                                                    *)
(***************************************************************************)
MaxPairs == 2        \* key/value pairs in a property list given to the translator
MaxPropValue == 4    \* property values are drawn from 0..MaxPropValue
NumThreads == 2      \* application threads
MaxCalls == 3        \* calls into the layer made in one run
MaxSamples == 2      \* reports the hardware sampler produces in one run
NumConfigs == 2      \* configuration ids an activation can produce
MaxValue == 1        \* metric values are drawn from 1..MaxValue
MaxReports == 3      \* event query outcomes in a sequence given to the aggregation

(***************************************************************************)
(* OpenCL constants used by the code.                                      *)
(***************************************************************************)
CL_QUEUE_PROPERTIES == 4243                      \* 0x1093
CL_QUEUE_PRIORITY_KHR == 4246                    \* 0x1096
CL_QUEUE_THROTTLE_KHR == 4247                    \* 0x1097
CL_QUEUE_OUT_OF_ORDER_EXEC_MODE_ENABLE == 1      \* (1 << 0)
CL_QUEUE_PROFILING_ENABLE == 2                   \* (1 << 1)
CL_SUCCESS == 0

\* The null pointer, for a property list (a well-formed list is never empty:
\* it holds at least its terminating zero).
NullProps == << >>

(***************************************************************************)
(* Bitwise OR of two naturals, bit by bit.                                 *)
(***************************************************************************)
RECURSIVE BitOr(_, _)
BitOr(a, b) ==
    IF a = 0 THEN b
    ELSE IF b = 0 THEN a
    ELSE (IF (a % 2 = 1) \/ (b % 2 = 1) THEN 1 ELSE 0)
         + 2 * BitOr(a \div 2, b \div 2)

\* properties[ i ], with the code's zero-based index
At(properties, i) == properties[i + 1]

(***************************************************************************)
(* convertPropertiesToOCL1_2, lines 33-68.  The result is the returned     *)
(* bool (ok) and the value left in the reference parameter (bits).         *)
(***************************************************************************)
RECURSIVE convertLoop_mutAssign(_, _, _)
convertLoop_mutAssign(properties, i, ocl1_2_properties) ==
    IF At(properties, i) = 0
    THEN [ok |-> TRUE, bits |-> ocl1_2_properties]
    ELSE IF At(properties, i) = CL_QUEUE_PROPERTIES
    THEN IF At(properties, i + 1) \in
              { 0, CL_QUEUE_PROFILING_ENABLE, CL_QUEUE_OUT_OF_ORDER_EXEC_MODE_ENABLE,
                BitOr(CL_QUEUE_PROFILING_ENABLE, CL_QUEUE_OUT_OF_ORDER_EXEC_MODE_ENABLE) }
         THEN convertLoop_mutAssign(properties, i + 2, At(properties, i + 1))
         ELSE [ok |-> FALSE, bits |-> ocl1_2_properties]
    ELSE IF At(properties, i) \in { CL_QUEUE_PRIORITY_KHR, CL_QUEUE_THROTTLE_KHR }
    THEN convertLoop_mutAssign(properties, i + 2, ocl1_2_properties)
    ELSE [ok |-> FALSE, bits |-> ocl1_2_properties]

RECURSIVE convertLoop(_, _, _)
convertLoop(properties, i, ocl1_2_properties) ==
    IF At(properties, i) = 0
    THEN [ok |-> TRUE, bits |-> ocl1_2_properties]
    ELSE IF At(properties, i) = CL_QUEUE_PROPERTIES
    THEN IF At(properties, i + 1) \in
              { 0, CL_QUEUE_PROFILING_ENABLE, CL_QUEUE_OUT_OF_ORDER_EXEC_MODE_ENABLE,
                BitOr(CL_QUEUE_PROFILING_ENABLE, CL_QUEUE_OUT_OF_ORDER_EXEC_MODE_ENABLE) }
         THEN convertLoop(properties, i + 2,
                          BitOr(ocl1_2_properties, At(properties, i + 1)))
         ELSE [ok |-> FALSE, bits |-> ocl1_2_properties]
    ELSE IF At(properties, i) \in { CL_QUEUE_PRIORITY_KHR, CL_QUEUE_THROTTLE_KHR }
    THEN convertLoop(properties, i + 2, ocl1_2_properties)
    ELSE [ok |-> FALSE, bits |-> ocl1_2_properties]

convertPropertiesToOCL1_2(properties, ocl1_2_properties) ==
    IF properties = NullProps
    THEN [ok |-> TRUE, bits |-> ocl1_2_properties]
    ELSE convertLoop(properties, 0, ocl1_2_properties)

(***************************************************************************)
(* Property lists given to the translator: n key/value pairs and the       *)
(* terminating zero.  The keys are the three the code knows and one it     *)
(* does not (CL_QUEUE_SIZE, 0x1094).                                       *)
(***************************************************************************)
PropKeys == { CL_QUEUE_PROPERTIES, CL_QUEUE_PRIORITY_KHR, CL_QUEUE_THROTTLE_KHR, 4244 }
PropValues == 0 .. MaxPropValue

RECURSIVE ListsOf(_)
ListsOf(n) ==
    IF n = 0 THEN { << 0 >> }
    ELSE { << k, v >> \o rest : k \in PropKeys, v \in PropValues, rest \in ListsOf(n - 1) }

PropLists(n) == { NullProps } \cup UNION { ListsOf(m) : m \in 0 .. n }

\* The lists given to createMDAPICommandQueue: none, the empty list, lists the
\* translator accepts, and lists it rejects for a value (CL_QUEUE_ON_DEVICE,
\* 1 << 2) or for a key (CL_QUEUE_SIZE), at the first pair or after a good one.
CallLists ==
    { NullProps,
      << 0 >>,
      << CL_QUEUE_PROPERTIES, CL_QUEUE_PROFILING_ENABLE, 0 >>,
      << CL_QUEUE_PRIORITY_KHR, 1, CL_QUEUE_PROPERTIES, 0, 0 >>,
      << CL_QUEUE_PROPERTIES, 4, 0 >>,
      << 4244, 0, 0 >>,
      << CL_QUEUE_PROPERTIES, CL_QUEUE_PROFILING_ENABLE, CL_QUEUE_PROPERTIES, 4, 0 >>,
      << CL_QUEUE_THROTTLE_KHR, 0, 4244, 1, 0 >> }

(***************************************************************************)
(* The state.                                                              *)
(***************************************************************************)
VARIABLES
    overlap,        \* scheduling: the calls that may overlap: "none", or "create"
                    \* (createMDAPICommandQueue calls overlap one another)
    cfg,            \* config(): DevicePerfCounterEventBasedSampling (EBS),
                    \*           DevicePerfCounterTimeBasedSampling (TBS)
    assertsOn,      \* the build: TRUE when CLI_ASSERT aborts on a false condition
    aborted,        \* a CLI_ASSERT has ended the process
    driverHasExt,   \* the driver exports clCreatePerfCountersCommandQueueINTEL
    entryPoint,     \* dispatchX(platform).clCreatePerfCountersCommandQueueINTEL != NULL
    m_Mutex,        \* owner of m_Mutex, NoThread when free
    m_pMDHelper,    \* "NULL", or the mode the helper was created in
    mdStreamOpens,  \* helper: number of OpenStream calls it has received
    mdActiveConfig, \* helper: configuration id of the activated metric set, 0 = none
    mdPending,      \* helper: reports waiting in the sample stream
    mdSaved,        \* helper: reports saved by SaveReportsFromStream
    m_MetricDump,   \* the dump file: [is_open, rows]
    m_MetricAggregations, \* call-site name -> metric name -> [Sum, Count]
    pc,             \* per thread: where it is
    loc,            \* per thread: arguments, locals and results of its call
    pre,            \* << session state at the entry of the call in progress >>
    ncalls,         \* calls made so far
    nSamples,       \* reports the sampler has produced so far
    nConstruct,     \* backend handles constructed so far
    constructFailed, \* a construction of the backend handle has failed
    nOpen,          \* successful opens of the dump file so far
    timing,         \* config().DevicePerfCounterTiming
    os,             \* what the last reportMDAPICounters call wrote to its stream
    nReports,       \* call-site name -> non-empty reports extracted so far
    agIn,           \* aggregation check: the outcomes of the event queries
    agPos,          \* aggregation check: the outcomes processed so far
    cvIn,           \* translator check: the property list
    cvOut,          \* translator check: the result
    cvDone          \* translator check: the translator has run

vars == << overlap, cfg, assertsOn, aborted, driverHasExt, entryPoint, m_Mutex, m_pMDHelper,
           mdStreamOpens, mdActiveConfig, mdPending, mdSaved, m_MetricDump,
           m_MetricAggregations, pc, loc, pre, ncalls, nSamples, nConstruct, constructFailed, nOpen,
           timing, os, nReports, agIn, agPos, cvIn, cvOut, cvDone >>

envVars == << overlap, cfg, timing, assertsOn, driverHasExt >>
cvVars == << cvIn, cvOut, cvDone >>
reportVars == << os, nReports, agIn, agPos >>
ghostVars == << nConstruct, constructFailed >>

Threads == 1 .. NumThreads
NoThread == 0
Names == { "foo", "bar" }           \* call-site names
MetricNames == { "A", "B" }         \* the metrics of the configured metric set
MetricValues == 1 .. MaxValue
ConfigIds == 1 .. NumConfigs

\* What the backend's queue creation can answer: a queue and CL_SUCCESS, or no
\* queue and an error code (CL_OUT_OF_RESOURCES).
BackendAnswers ==
    { [queue |-> "QUEUE", code |-> CL_SUCCESS],
      [queue |-> "NULL", code |-> -5] }

\* The session state a call can change.
SessionState ==
    [ helper |-> m_pMDHelper, streamOpens |-> mdStreamOpens,
      activeConfig |-> mdActiveConfig, saved |-> mdSaved,
      dump |-> m_MetricDump, aggregations |-> m_MetricAggregations ]

\* Locals of a thread that is in no call.
IdleLoc ==
    [ op |-> "none",            \* the member function called
      kind |-> "none",          \* "init", "create", "stream" or "event"
      converted |-> TRUE,       \* what convertPropertiesToOCL1_2 returned
      properties |-> 0,         \* cl_command_queue_properties
      errOut |-> << >>,         \* << errcode_ret[0] >> once written
      retVal |-> "NULL",
      dispX |-> FALSE,          \* local copy of the dispatch entry
      configuration |-> 0,
      activated |-> 0,          \* configuration id this call's activation produced
      backend |-> << >>,        \* << arguments and answer of the backend call >>
      name |-> "",
      results |-> << >>,        \* metric name -> value of the converted report
      did |-> {} ]              \* operations the call has issued

InitState ==
    /\ cfg \in [EBS : BOOLEAN, TBS : BOOLEAN]
    /\ assertsOn \in BOOLEAN
    /\ aborted = FALSE
    /\ driverHasExt \in BOOLEAN
    /\ entryPoint = FALSE
    /\ m_Mutex = NoThread
    /\ m_pMDHelper = "NULL"
    /\ mdStreamOpens = 0
    /\ mdActiveConfig = 0
    /\ mdPending = 0
    /\ mdSaved = 0
    /\ m_MetricDump = [is_open |-> FALSE, rows |-> << >>]
    /\ m_MetricAggregations = << >>
    /\ pc = [t \in Threads |-> "idle"]
    /\ loc = [t \in Threads |-> IdleLoc]
    /\ pre = << >>
    /\ ncalls = 0
    /\ nSamples = 0
    /\ nConstruct = 0
    /\ constructFailed = FALSE
    /\ nOpen = 0
    /\ os = << >>
    /\ nReports = [n \in Names |-> 0]
    /\ agPos = 0
    /\ cvOut = [ok |-> TRUE, bits |-> 0]
    /\ cvDone = FALSE

Init ==
    /\ InitState
    /\ overlap = "none"
    /\ timing = FALSE
    /\ agIn = << >>
    /\ cvIn = NullProps

Goto(t, p) == pc' = [pc EXCEPT ![t] = p]

\* no other thread is inside a call
Alone(t) == \A u \in Threads \ { t } : pc[u] = "idle"

\* a thread enters a call when no other thread is inside one or, for the
\* calls allowed to overlap, when the others are inside calls of that kind
CanCall(t, kind) ==
    /\ ~aborted
    /\ pc[t] = "idle"
    /\ ncalls < MaxCalls
    /\ \/ Alone(t)
       \/ /\ overlap = kind
          /\ \A u \in Threads \ { t } : pc[u] = "idle" \/ loc[u].kind = kind
Running(t, p) == ~aborted /\ pc[t] = p

Enter(t, l) ==
    /\ loc' = [loc EXCEPT ![t] = l]
    /\ pre' = IF Alone(t) THEN << SessionState >> ELSE << >>
    /\ ncalls' = ncalls + 1

\* operator<< on m_MetricDump: a stream that is not open drops what is written
WriteRow(dump, row) ==
    IF dump.is_open THEN [dump EXCEPT !.rows = Append(@, row)] ELSE dump

(***************************************************************************)
(* CLIntercept::initCustomPerfCounters, lines 72-142.                      *)
(***************************************************************************)
CallInit(t) ==
    /\ CanCall(t, "init")
    /\ Enter(t, [IdleLoc EXCEPT !.op = "initCustomPerfCounters", !.kind = "init"])
    /\ Goto(t, "in_check")
    /\ UNCHANGED << envVars, cvVars, reportVars, aborted, entryPoint, m_Mutex, m_pMDHelper,
                    mdStreamOpens, mdActiveConfig, mdPending, mdSaved, m_MetricDump,
                    m_MetricAggregations, nSamples, ghostVars, nOpen >>

\* line 78: if( m_pMDHelper == NULL )
InCheck(t) ==
    /\ Running(t, "in_check")
    /\ Goto(t, IF m_pMDHelper = "NULL" THEN "in_construct" ELSE "in_recheck")
    /\ UNCHANGED << envVars, cvVars, reportVars, aborted, entryPoint, m_Mutex, m_pMDHelper,
                    mdStreamOpens, mdActiveConfig, mdPending, mdSaved, m_MetricDump,
                    m_MetricAggregations, loc, pre, ncalls, nSamples, ghostVars, nOpen >>

\* MDHelper::CreateEBS / CreateTBS: a helper of that mode, or NULL
CreateAnswers(mode) == { mode, "NULL" }

\* lines 80-99: the handle is constructed in the configured mode; with neither
\* mode configured CLI_ASSERT( 0 ) ends a build with assertions and is skipped
\* by one without.  (Lines 100-107 only log.)
InConstruct(t) ==
    /\ Running(t, "in_construct")
    /\ IF cfg.EBS \/ cfg.TBS
       THEN \E h \in CreateAnswers(IF cfg.EBS THEN "EBS" ELSE "TBS") :
               /\ m_pMDHelper' = h
               /\ nConstruct' = IF h = "NULL" THEN nConstruct ELSE nConstruct + 1
               /\ constructFailed' = (constructFailed \/ h = "NULL")
               /\ loc' = [loc EXCEPT ![t].did =
                            @ \cup { IF h = "NULL" THEN "ConstructFailed" ELSE "Construct" }]
               /\ UNCHANGED aborted
       ELSE /\ aborted' = assertsOn
            /\ UNCHANGED << m_pMDHelper, ghostVars, loc >>
    /\ Goto(t, "in_recheck")
    /\ UNCHANGED << envVars, cvVars, reportVars, entryPoint, m_Mutex,
                    mdStreamOpens, mdActiveConfig, mdPending, mdSaved, m_MetricDump,
                    m_MetricAggregations, pre, ncalls, nSamples, nOpen >>

\* line 110: if( m_pMDHelper )
InRecheck_mutNoCheck(t) ==
    /\ Running(t, "in_recheck")
    /\ Goto(t, "in_stream")
    /\ UNCHANGED << envVars, cvVars, reportVars, aborted, entryPoint, m_Mutex, m_pMDHelper,
                    mdStreamOpens, mdActiveConfig, mdPending, mdSaved, m_MetricDump,
                    m_MetricAggregations, loc, pre, ncalls, nSamples, ghostVars, nOpen >>

InRecheck(t) ==
    /\ Running(t, "in_recheck")
    /\ Goto(t, IF m_pMDHelper # "NULL" THEN "in_stream" ELSE "ret")
    /\ UNCHANGED << envVars, cvVars, reportVars, aborted, entryPoint, m_Mutex, m_pMDHelper,
                    mdStreamOpens, mdActiveConfig, mdPending, mdSaved, m_MetricDump,
                    m_MetricAggregations, loc, pre, ncalls, nSamples, ghostVars, nOpen >>

\* lines 113-120: OpenStream in time based sampling
InStream(t) ==
    /\ Running(t, "in_stream")
    /\ IF cfg.TBS
       THEN /\ mdStreamOpens' = mdStreamOpens + 1
            /\ loc' = [loc EXCEPT ![t].did = @ \cup { "OpenStream" }]
       ELSE UNCHANGED << mdStreamOpens, loc >>
    /\ Goto(t, "in_dump")
    /\ UNCHANGED << envVars, cvVars, reportVars, aborted, entryPoint, m_Mutex, m_pMDHelper,
                    mdActiveConfig, mdPending, mdSaved, m_MetricDump,
                    m_MetricAggregations, pre, ncalls, nSamples, ghostVars, nOpen >>

\* line 124: if ( !m_MetricDump.is_open() )
InDump_mutNoGuard(t) ==
    /\ Running(t, "in_dump")
    /\ Goto(t, "in_open")
    /\ UNCHANGED << envVars, cvVars, reportVars, aborted, entryPoint, m_Mutex, m_pMDHelper,
                    mdStreamOpens, mdActiveConfig, mdPending, mdSaved, m_MetricDump,
                    m_MetricAggregations, loc, pre, ncalls, nSamples, ghostVars, nOpen >>

InDump(t) ==
    /\ Running(t, "in_dump")
    /\ Goto(t, IF ~m_MetricDump.is_open THEN "in_open" ELSE "ret")
    /\ UNCHANGED << envVars, cvVars, reportVars, aborted, entryPoint, m_Mutex, m_pMDHelper,
                    mdStreamOpens, mdActiveConfig, mdPending, mdSaved, m_MetricDump,
                    m_MetricAggregations, loc, pre, ncalls, nSamples, ghostVars, nOpen >>

\* lines 126-136: m_MetricDump.open( fileName, std::ios::out ): the file is
\* created empty, or the open fails and the stream stays closed.  (With
\* overlapping callers the stream may have been opened by another thread since
\* line 124; the two accesses race, and both outcomes are kept.)
InOpen(t) ==
    /\ Running(t, "in_open")
    /\ \E opened \in BOOLEAN :
          /\ m_MetricDump' = IF opened THEN [is_open |-> TRUE, rows |-> << >>]
                                       ELSE m_MetricDump
          /\ nOpen' = IF opened THEN nOpen + 1 ELSE nOpen
          /\ loc' = [loc EXCEPT ![t].did =
                        @ \cup { IF opened THEN "Open" ELSE "OpenFailed" }]
    /\ Goto(t, "in_names")
    /\ UNCHANGED << envVars, cvVars, reportVars, aborted, entryPoint, m_Mutex, m_pMDHelper,
                    mdStreamOpens, mdActiveConfig, mdPending, mdSaved,
                    m_MetricAggregations, pre, ncalls, nSamples, ghostVars >>

\* line 138: PrintMetricNames
InNames_mutUnitsFirst(t) ==
    /\ Running(t, "in_names")
    /\ m_MetricDump' = WriteRow(m_MetricDump, [kind |-> "units", tag |-> ""])
    /\ Goto(t, "in_units")
    /\ UNCHANGED << envVars, cvVars, reportVars, aborted, entryPoint, m_Mutex, m_pMDHelper,
                    mdStreamOpens, mdActiveConfig, mdPending, mdSaved,
                    m_MetricAggregations, loc, pre, ncalls, nSamples, ghostVars, nOpen >>

InNames(t) ==
    /\ Running(t, "in_names")
    /\ m_MetricDump' = WriteRow(m_MetricDump, [kind |-> "names", tag |-> ""])
    /\ Goto(t, "in_units")
    /\ UNCHANGED << envVars, cvVars, reportVars, aborted, entryPoint, m_Mutex, m_pMDHelper,
                    mdStreamOpens, mdActiveConfig, mdPending, mdSaved,
                    m_MetricAggregations, loc, pre, ncalls, nSamples, ghostVars, nOpen >>

\* line 139: PrintMetricUnits
InUnits(t) ==
    /\ Running(t, "in_units")
    /\ m_MetricDump' = WriteRow(m_MetricDump, [kind |-> "units", tag |-> ""])
    /\ Goto(t, "ret")
    /\ UNCHANGED << envVars, cvVars, reportVars, aborted, entryPoint, m_Mutex, m_pMDHelper,
                    mdStreamOpens, mdActiveConfig, mdPending, mdSaved,
                    m_MetricAggregations, loc, pre, ncalls, nSamples, ghostVars, nOpen >>

\* the return of any of the calls
Return(t) ==
    /\ Running(t, "ret")
    /\ Goto(t, "idle")
    /\ loc' = [loc EXCEPT ![t] = IdleLoc]
    /\ pre' = << >>
    /\ UNCHANGED << envVars, cvVars, reportVars, aborted, entryPoint, m_Mutex, m_pMDHelper,
                    mdStreamOpens, mdActiveConfig, mdPending, mdSaved, m_MetricDump,
                    m_MetricAggregations, ncalls, nSamples, ghostVars, nOpen >>

(***************************************************************************)
(* CLIntercept::createMDAPICommandQueue, the property-list overload,       *)
(* lines 215-242, and the bitfield overload it calls, lines 146-211.       *)
(***************************************************************************)
\* lines 231-241: the list is translated first; a list that does not translate
\* returns retVal = NULL at once
CallCreateProps_mutIgnoreResult(t) ==
    /\ CanCall(t, "create")
    /\ \E properties \in CallLists :
          LET conv == convertPropertiesToOCL1_2(properties, 0)
          IN  /\ Enter(t, [IdleLoc EXCEPT !.op = "createMDAPICommandQueue",
                                           !.kind = "create",
                                           !.converted = conv.ok,
                                           !.properties = conv.bits])
              /\ Goto(t, "cq_resolve")
    /\ UNCHANGED << envVars, cvVars, reportVars, aborted, entryPoint, m_Mutex, m_pMDHelper,
                    mdStreamOpens, mdActiveConfig, mdPending, mdSaved, m_MetricDump,
                    m_MetricAggregations, nSamples, ghostVars, nOpen >>

CallCreateProps(t) ==
    /\ CanCall(t, "create")
    /\ \E properties \in CallLists :
          LET conv == convertPropertiesToOCL1_2(properties, 0)
          IN  /\ Enter(t, [IdleLoc EXCEPT !.op = "createMDAPICommandQueue",
                                           !.kind = "create",
                                           !.converted = conv.ok,
                                           !.properties = IF conv.ok THEN conv.bits ELSE 0])
              /\ Goto(t, IF conv.ok THEN "cq_resolve" ELSE "ret")
    /\ UNCHANGED << envVars, cvVars, reportVars, aborted, entryPoint, m_Mutex, m_pMDHelper,
                    mdStreamOpens, mdActiveConfig, mdPending, mdSaved, m_MetricDump,
                    m_MetricAggregations, nSamples, ghostVars, nOpen >>

CallCreateBits(t) ==
    /\ CanCall(t, "create")
    /\ \E properties \in { 0, CL_QUEUE_PROFILING_ENABLE } :
          Enter(t, [IdleLoc EXCEPT !.op = "createMDAPICommandQueue",
                                   !.kind = "create",
                                   !.properties = properties])
    /\ Goto(t, "cq_resolve")
    /\ UNCHANGED << envVars, cvVars, reportVars, aborted, entryPoint, m_Mutex, m_pMDHelper,
                    mdStreamOpens, mdActiveConfig, mdPending, mdSaved, m_MetricDump,
                    m_MetricAggregations, nSamples, ghostVars, nOpen >>

\* lines 156-161: getExtensionFunctionAddress fills the dispatch entry when the
\* driver exports the function
CqResolve(t) ==
    /\ Running(t, "cq_resolve")
    /\ entryPoint' = IF ~entryPoint THEN driverHasExt ELSE entryPoint
    /\ Goto(t, "cq_lock")
    /\ UNCHANGED << envVars, cvVars, reportVars, aborted, m_Mutex, m_pMDHelper,
                    mdStreamOpens, mdActiveConfig, mdPending, mdSaved, m_MetricDump,
                    m_MetricAggregations, loc, pre, ncalls, nSamples, ghostVars, nOpen >>

\* line 163: std::lock_guard<std::mutex> lock(m_Mutex)
CqLock_mutNoMutex(t) ==
    /\ Running(t, "cq_lock")
    /\ m_Mutex' = t
    /\ loc' = [loc EXCEPT ![t].did = @ \cup { "Lock" }]
    /\ Goto(t, "cq_dispatch")
    /\ UNCHANGED << envVars, cvVars, reportVars, aborted, entryPoint, m_pMDHelper,
                    mdStreamOpens, mdActiveConfig, mdPending, mdSaved, m_MetricDump,
                    m_MetricAggregations, pre, ncalls, nSamples, ghostVars, nOpen >>

CqLock(t) ==
    /\ Running(t, "cq_lock")
    /\ m_Mutex = NoThread
    /\ m_Mutex' = t
    /\ loc' = [loc EXCEPT ![t].did = @ \cup { "Lock" }]
    /\ Goto(t, "cq_dispatch")
    /\ UNCHANGED << envVars, cvVars, reportVars, aborted, entryPoint, m_pMDHelper,
                    mdStreamOpens, mdActiveConfig, mdPending, mdSaved, m_MetricDump,
                    m_MetricAggregations, pre, ncalls, nSamples, ghostVars, nOpen >>

\* lines 165-169: the dispatch entry is copied and tested
CqDispatch_mutNoCheck(t) ==
    /\ Running(t, "cq_dispatch")
    /\ loc' = [loc EXCEPT ![t].dispX = entryPoint]
    /\ Goto(t, "cq_helper")
    /\ UNCHANGED << envVars, cvVars, reportVars, aborted, entryPoint, m_Mutex, m_pMDHelper,
                    mdStreamOpens, mdActiveConfig, mdPending, mdSaved, m_MetricDump,
                    m_MetricAggregations, pre, ncalls, nSamples, ghostVars, nOpen >>

CqDispatch(t) ==
    /\ Running(t, "cq_dispatch")
    /\ loc' = [loc EXCEPT ![t].dispX = entryPoint]
    /\ Goto(t, IF entryPoint THEN "cq_helper" ELSE "cq_unlock")
    /\ UNCHANGED << envVars, cvVars, reportVars, aborted, entryPoint, m_Mutex, m_pMDHelper,
                    mdStreamOpens, mdActiveConfig, mdPending, mdSaved, m_MetricDump,
                    m_MetricAggregations, pre, ncalls, nSamples, ghostVars, nOpen >>

\* line 170: else if( m_pMDHelper == NULL )
CqHelper_mutWritesError(t) ==
    /\ Running(t, "cq_helper")
    /\ Goto(t, IF m_pMDHelper = "NULL" THEN "cq_unlock" ELSE "cq_activate")
    /\ loc' = [loc EXCEPT ![t].errOut = IF m_pMDHelper = "NULL" THEN << -59 >> ELSE @]
    /\ UNCHANGED << envVars, cvVars, reportVars, aborted, entryPoint, m_Mutex, m_pMDHelper,
                    mdStreamOpens, mdActiveConfig, mdPending, mdSaved, m_MetricDump,
                    m_MetricAggregations, pre, ncalls, nSamples, ghostVars, nOpen >>

CqHelper(t) ==
    /\ Running(t, "cq_helper")
    /\ Goto(t, IF m_pMDHelper = "NULL" THEN "cq_unlock" ELSE "cq_activate")
    /\ UNCHANGED << envVars, cvVars, reportVars, aborted, entryPoint, m_Mutex, m_pMDHelper,
                    mdStreamOpens, mdActiveConfig, mdPending, mdSaved, m_MetricDump,
                    m_MetricAggregations, loc, pre, ncalls, nSamples, ghostVars, nOpen >>

\* MDHelper::ActivateMetricSet: the metric set is activated under one of the
\* configuration ids and the call answers true, or the activation fails, the
\* helper is left as it was and the call answers false (id 0)
ActivateMetricSet(id) == IF id # 0 THEN id ELSE mdActiveConfig

\* line 176: if( m_pMDHelper->ActivateMetricSet() )
CqActivate(t) ==
    /\ Running(t, "cq_activate")
    /\ \E id \in ConfigIds \cup { 0 } :
          /\ mdActiveConfig' = ActivateMetricSet(id)
          /\ loc' = [loc EXCEPT ![t].did = @ \cup { "ActivateMetricSet" },
                                ![t].activated = id]
          /\ Goto(t, IF id # 0 THEN "cq_getconf" ELSE "cq_unlock")
    /\ UNCHANGED << envVars, cvVars, reportVars, aborted, entryPoint, m_Mutex, m_pMDHelper,
                    mdStreamOpens, mdPending, mdSaved, m_MetricDump,
                    m_MetricAggregations, pre, ncalls, nSamples, ghostVars, nOpen >>

\* line 179: cl_uint configuration = m_pMDHelper->GetMetricsConfiguration()
CqGetConf(t) ==
    /\ Running(t, "cq_getconf")
    /\ loc' = [loc EXCEPT ![t].configuration = mdActiveConfig]
    /\ Goto(t, "cq_create")
    /\ UNCHANGED << envVars, cvVars, reportVars, aborted, entryPoint, m_Mutex, m_pMDHelper,
                    mdStreamOpens, mdActiveConfig, mdPending, mdSaved, m_MetricDump,
                    m_MetricAggregations, pre, ncalls, nSamples, ghostVars, nOpen >>

\* lines 178-202: the backend is called with the properties and the
\* configuration; its queue is returned and its code stored through
\* errcode_ret.  errcode_ret is an argument of the call that is read here only:
\* whether the caller gave one is drawn here.
CqCreate_mutErrOnSuccess(t) ==
    /\ Running(t, "cq_create")
    /\ \E answer \in BackendAnswers, errcode_ret \in BOOLEAN :
          loc' = [loc EXCEPT
                    ![t].did = @ \cup { "clCreatePerfCountersCommandQueueINTEL" },
                    ![t].backend = << [properties |-> loc[t].properties,
                                       configuration |-> loc[t].configuration,
                                       errcode_ret |-> errcode_ret,
                                       queue |-> answer.queue,
                                       code |-> answer.code] >>,
                    ![t].retVal = answer.queue,
                    ![t].errOut = IF errcode_ret /\ answer.queue # "NULL"
                                  THEN << answer.code >> ELSE @]
    /\ Goto(t, "cq_unlock")
    /\ UNCHANGED << envVars, cvVars, reportVars, aborted, entryPoint, m_Mutex, m_pMDHelper,
                    mdStreamOpens, mdActiveConfig, mdPending, mdSaved, m_MetricDump,
                    m_MetricAggregations, pre, ncalls, nSamples, ghostVars, nOpen >>

CqCreate(t) ==
    /\ Running(t, "cq_create")
    /\ \E answer \in BackendAnswers, errcode_ret \in BOOLEAN :
          loc' = [loc EXCEPT
                    ![t].did = @ \cup { "clCreatePerfCountersCommandQueueINTEL" },
                    ![t].backend = << [properties |-> loc[t].properties,
                                       configuration |-> loc[t].configuration,
                                       errcode_ret |-> errcode_ret,
                                       queue |-> answer.queue,
                                       code |-> answer.code] >>,
                    ![t].retVal = answer.queue,
                    ![t].errOut = IF errcode_ret
                                  THEN << answer.code >> ELSE @]
    /\ Goto(t, "cq_unlock")
    /\ UNCHANGED << envVars, cvVars, reportVars, aborted, entryPoint, m_Mutex, m_pMDHelper,
                    mdStreamOpens, mdActiveConfig, mdPending, mdSaved, m_MetricDump,
                    m_MetricAggregations, pre, ncalls, nSamples, ghostVars, nOpen >>

\* lines 210-211: return retVal; the lock_guard releases m_Mutex and the call
\* returns (its results are those the thread holds at "cq_unlock")
CqUnlock(t) ==
    /\ Running(t, "cq_unlock")
    /\ m_Mutex' = NoThread
    /\ Goto(t, "idle")
    /\ loc' = [loc EXCEPT ![t] = IdleLoc]
    /\ pre' = << >>
    /\ UNCHANGED << envVars, cvVars, reportVars, aborted, entryPoint, m_pMDHelper,
                    mdStreamOpens, mdActiveConfig, mdPending, mdSaved, m_MetricDump,
                    m_MetricAggregations, ncalls, nSamples, ghostVars, nOpen >>

(***************************************************************************)
(* CLIntercept::getMDAPICountersFromStream, lines 246-284.                 *)
(***************************************************************************)
\* line 249: CLI_ASSERT( config().DevicePerfCounterTimeBasedSampling )
CallStream(t) ==
    /\ CanCall(t, "stream")
    /\ Enter(t, [IdleLoc EXCEPT !.op = "getMDAPICountersFromStream", !.kind = "stream"])
    /\ aborted' = (assertsOn /\ ~cfg.TBS)
    /\ Goto(t, "st_check")
    /\ UNCHANGED << envVars, cvVars, reportVars, entryPoint, m_Mutex, m_pMDHelper,
                    mdStreamOpens, mdActiveConfig, mdPending, mdSaved, m_MetricDump,
                    m_MetricAggregations, nSamples, ghostVars, nOpen >>

\* line 251: if( m_pMDHelper )
StCheck(t) ==
    /\ Running(t, "st_check")
    /\ Goto(t, IF m_pMDHelper # "NULL" THEN "st_save" ELSE "ret")
    /\ UNCHANGED << envVars, cvVars, reportVars, aborted, entryPoint, m_Mutex, m_pMDHelper,
                    mdStreamOpens, mdActiveConfig, mdPending, mdSaved, m_MetricDump,
                    m_MetricAggregations, loc, pre, ncalls, nSamples, ghostVars, nOpen >>

\* MDHelper::SaveReportsFromStream: some of the reports waiting in the stream
\* (at least one, when there is one) are moved to the saved reports; the call
\* answers whether it moved any
SaveReportsFromStream(k) == k > 0

\* lines 259-260 and 280: the loop ends when nothing new was saved
StSave(t) ==
    /\ Running(t, "st_save")
    /\ \E k \in (IF mdPending = 0 THEN { 0 } ELSE 1 .. mdPending) :
          /\ mdPending' = mdPending - k
          /\ mdSaved' = mdSaved + k
          /\ loc' = [loc EXCEPT ![t].did = @ \cup { "SaveReportsFromStream" }]
          /\ Goto(t, IF SaveReportsFromStream(k) THEN "st_print" ELSE "ret")
    /\ UNCHANGED << envVars, cvVars, reportVars, aborted, entryPoint, m_Mutex, m_pMDHelper,
                    mdStreamOpens, mdActiveConfig, m_MetricDump,
                    m_MetricAggregations, pre, ncalls, nSamples, ghostVars, nOpen >>

\* lines 262-274: the saved reports are converted and written as a row tagged "TBS"
StPrint(t) ==
    /\ Running(t, "st_print")
    /\ m_MetricDump' = WriteRow(m_MetricDump, [kind |-> "data", tag |-> "TBS"])
    /\ loc' = [loc EXCEPT ![t].did = @ \cup { "PrintMetricValues" }]
    /\ Goto(t, "st_reset")
    /\ UNCHANGED << envVars, cvVars, reportVars, aborted, entryPoint, m_Mutex, m_pMDHelper,
                    mdStreamOpens, mdActiveConfig, mdPending, mdSaved,
                    m_MetricAggregations, pre, ncalls, nSamples, ghostVars, nOpen >>

\* line 276: m_pMDHelper->ResetSavedReports()
StReset_mutBreak(t) ==
    /\ Running(t, "st_reset")
    /\ mdSaved' = 0
    /\ Goto(t, "ret")
    /\ UNCHANGED << envVars, cvVars, reportVars, aborted, entryPoint, m_Mutex, m_pMDHelper,
                    mdStreamOpens, mdActiveConfig, mdPending, m_MetricDump,
                    m_MetricAggregations, loc, pre, ncalls, nSamples, ghostVars, nOpen >>

StReset(t) ==
    /\ Running(t, "st_reset")
    /\ mdSaved' = 0
    /\ Goto(t, "st_save")
    /\ UNCHANGED << envVars, cvVars, reportVars, aborted, entryPoint, m_Mutex, m_pMDHelper,
                    mdStreamOpens, mdActiveConfig, mdPending, m_MetricDump,
                    m_MetricAggregations, loc, pre, ncalls, nSamples, ghostVars, nOpen >>

\* The hardware sampler: once the stream is open it adds reports to it.  (In
\* the runs where every report is enqueued before the drain that reads it, the
\* sampler is quiet while a drain is in progress.)
HardwareSample ==
    /\ ~aborted
    /\ mdStreamOpens > 0
    /\ overlap = "drain" => \A t \in Threads : loc[t].kind # "stream"
    /\ nSamples < MaxSamples
    /\ mdPending' = mdPending + 1
    /\ nSamples' = nSamples + 1
    /\ UNCHANGED << envVars, cvVars, reportVars, aborted, entryPoint, m_Mutex, m_pMDHelper,
                    mdStreamOpens, mdActiveConfig, mdSaved, m_MetricDump,
                    m_MetricAggregations, pc, loc, pre, ncalls, ghostVars, nOpen >>

(***************************************************************************)
(* CLIntercept::getMDAPICountersFromEvent, lines 288-351.                  *)
(***************************************************************************)
\* line 293: CLI_ASSERT( config().DevicePerfCounterEventBasedSampling )
CallEvent(t) ==
    /\ CanCall(t, "event")
    /\ \E name \in Names :
          Enter(t, [IdleLoc EXCEPT !.op = "getMDAPICountersFromEvent", !.kind = "event",
                           !.name = name])
    /\ aborted' = (assertsOn /\ ~cfg.EBS)
    /\ Goto(t, "ev_check")
    /\ UNCHANGED << envVars, cvVars, reportVars, entryPoint, m_Mutex, m_pMDHelper,
                    mdStreamOpens, mdActiveConfig, mdPending, mdSaved, m_MetricDump,
                    m_MetricAggregations, nSamples, ghostVars, nOpen >>

\* line 295: if( m_pMDHelper )
EvCheck(t) ==
    /\ Running(t, "ev_check")
    /\ Goto(t, IF m_pMDHelper # "NULL" THEN "ev_query" ELSE "ret")
    /\ UNCHANGED << envVars, cvVars, reportVars, aborted, entryPoint, m_Mutex, m_pMDHelper,
                    mdStreamOpens, mdActiveConfig, mdPending, mdSaved, m_MetricDump,
                    m_MetricAggregations, loc, pre, ncalls, nSamples, ghostVars, nOpen >>

\* MDHelper::GetMetricsFromReports, for one report: a value for every metric of
\* the metric set, or no result at all
ReportResults == [MetricNames -> MetricValues] \cup { << >> }

\* lines 297-325: the report is queried from the event; a driver error is
\* logged; CLI_ASSERT( outputSize == reportSize ) ends a build with assertions
\* on a size mismatch; the report is converted and numResults tested
EvQuery_mutIgnoreError(t) ==
    /\ Running(t, "ev_query")
    /\ \E errorCode \in { CL_SUCCESS, -7 }, sizeMatches \in BOOLEAN,
          results \in ReportResults :
          IF errorCode # CL_SUCCESS
          THEN /\ Goto(t, IF results # << >> THEN "ev_print" ELSE "ret")
               /\ loc' = [loc EXCEPT ![t].results = results,
                                     ![t].did = @ \cup { "QueryFailed" }]
               /\ UNCHANGED << aborted, nReports >>
          ELSE IF ~sizeMatches /\ assertsOn
          THEN /\ aborted' = TRUE
               /\ UNCHANGED << pc, loc, nReports >>
          ELSE /\ loc' = [loc EXCEPT ![t].results = results,
                                     ![t].did = @ \cup { "GetMetricsFromReports" }]
               /\ nReports' = IF results # << >>
                               THEN [nReports EXCEPT ![loc[t].name] = @ + 1]
                               ELSE nReports
               /\ Goto(t, IF results # << >> THEN "ev_print" ELSE "ret")
               /\ UNCHANGED aborted
    /\ UNCHANGED << envVars, cvVars, os, agIn, agPos, entryPoint, m_Mutex, m_pMDHelper,
                    mdStreamOpens, mdActiveConfig, mdPending, mdSaved, m_MetricDump,
                    m_MetricAggregations, pre, ncalls, nSamples, ghostVars, nOpen >>

EvQuery_mutNoResultCheck(t) ==
    /\ Running(t, "ev_query")
    /\ \E errorCode \in { CL_SUCCESS, -7 }, sizeMatches \in BOOLEAN,
          results \in ReportResults :
          IF errorCode # CL_SUCCESS
          THEN /\ Goto(t, "ret")
               /\ loc' = [loc EXCEPT ![t].did = @ \cup { "QueryFailed" }]
               /\ UNCHANGED << aborted, nReports >>
          ELSE IF ~sizeMatches /\ assertsOn
          THEN /\ aborted' = TRUE
               /\ UNCHANGED << pc, loc, nReports >>
          ELSE /\ loc' = [loc EXCEPT ![t].results = results,
                                     ![t].did = @ \cup { "GetMetricsFromReports" }]
               /\ nReports' = IF results # << >>
                               THEN [nReports EXCEPT ![loc[t].name] = @ + 1]
                               ELSE nReports
               /\ Goto(t, "ev_print")
               /\ UNCHANGED aborted
    /\ UNCHANGED << envVars, cvVars, os, agIn, agPos, entryPoint, m_Mutex, m_pMDHelper,
                    mdStreamOpens, mdActiveConfig, mdPending, mdSaved, m_MetricDump,
                    m_MetricAggregations, pre, ncalls, nSamples, ghostVars, nOpen >>

EvQuery(t) ==
    /\ Running(t, "ev_query")
    /\ \E errorCode \in { CL_SUCCESS, -7 }, sizeMatches \in BOOLEAN,
          results \in ReportResults :
          IF errorCode # CL_SUCCESS
          THEN /\ Goto(t, "ret")
               /\ loc' = [loc EXCEPT ![t].did = @ \cup { "QueryFailed" }]
               /\ UNCHANGED << aborted, nReports >>
          ELSE IF ~sizeMatches /\ assertsOn
          THEN /\ aborted' = TRUE
               /\ UNCHANGED << pc, loc, nReports >>
          ELSE /\ loc' = [loc EXCEPT ![t].results = results,
                                     ![t].did = @ \cup { "GetMetricsFromReports" }]
               /\ nReports' = IF results # << >>
                               THEN [nReports EXCEPT ![loc[t].name] = @ + 1]
                               ELSE nReports
               /\ Goto(t, IF results # << >> THEN "ev_print" ELSE "ret")
               /\ UNCHANGED aborted
    /\ UNCHANGED << envVars, cvVars, os, agIn, agPos, entryPoint, m_Mutex, m_pMDHelper,
                    mdStreamOpens, mdActiveConfig, mdPending, mdSaved, m_MetricDump,
                    m_MetricAggregations, pre, ncalls, nSamples, ghostVars, nOpen >>

\* lines 327-333: the values are written as a row tagged with the call-site name
EvPrint(t) ==
    /\ Running(t, "ev_print")
    /\ m_MetricDump' = WriteRow(m_MetricDump, [kind |-> "data", tag |-> loc[t].name])
    /\ loc' = [loc EXCEPT ![t].did = @ \cup { "PrintMetricValues" }]
    /\ Goto(t, "ev_aggregate")
    /\ UNCHANGED << envVars, cvVars, reportVars, aborted, entryPoint, m_Mutex, m_pMDHelper,
                    mdStreamOpens, mdActiveConfig, mdPending, mdSaved,
                    m_MetricAggregations, pre, ncalls, nSamples, ghostVars, nOpen >>

\* MDHelper::AggregateMetrics: every value is added to the Sum of its metric
\* under the call-site name and the metric's Count is incremented; the entries
\* are created on first use
AggregateMetrics(aggregations, name, results) ==
    LET old == IF name \in DOMAIN aggregations THEN aggregations[name] ELSE << >>
        new == [m \in DOMAIN results |->
                  IF m \in DOMAIN old
                  THEN [Sum |-> old[m].Sum + results[m], Count |-> old[m].Count + 1]
                  ELSE [Sum |-> results[m], Count |-> 1]]
    IN  [n \in DOMAIN aggregations \cup { name } |->
            IF n = name THEN new @@ old ELSE aggregations[n]]

\* lines 334-337
EvAggregate(t) ==
    /\ Running(t, "ev_aggregate")
    /\ m_MetricAggregations' =
          AggregateMetrics(m_MetricAggregations, loc[t].name, loc[t].results)
    /\ loc' = [loc EXCEPT ![t].did = @ \cup { "AggregateMetrics" }]
    /\ Goto(t, "ret")
    /\ UNCHANGED << envVars, cvVars, reportVars, aborted, entryPoint, m_Mutex, m_pMDHelper,
                    mdStreamOpens, mdActiveConfig, mdPending, mdSaved, m_MetricDump,
                    pre, ncalls, nSamples, ghostVars, nOpen >>

(***************************************************************************)
(* CLIntercept::reportMDAPICounters, lines 355-394.                        *)
(***************************************************************************)
\* std::map iterates its keys in order: the call-site names and the metric
\* names, sorted
SortedNames == << "bar", "foo" >>
SortedMetrics == << "A", "B" >>

\* the keys of a map, in iteration order
KeysOf(map, sorted) == SelectSeq(sorted, LAMBDA k : k \in DOMAIN map)

\* lines 361-369: one column width per metric of the first call-site (a width
\* is written as the metric name whose length it is)
headerWidths_mutSkipFirst(aggregations) ==
    Tail(KeysOf(aggregations[KeysOf(aggregations, SortedNames)[1]], SortedMetrics))

headerWidths(aggregations) ==
    KeysOf(aggregations[KeysOf(aggregations, SortedNames)[1]], SortedMetrics)

\* lines 376-389: the row of one call-site: its name, the Count of its first
\* metric, and Sum / Count of every metric, the i-th in a column of width
\* headerWidths[ i ].  Reading the first metric of a call-site without metrics,
\* dividing by a Count of zero and indexing past the widths are not defined:
\* such a row is marked.
reportRow_mutCallsFromSize(aggregations, kernelName, widths) ==
    LET kernelMetrics == aggregations[kernelName]
        metrics == KeysOf(kernelMetrics, SortedMetrics)
        aggregationData(numMetric) == kernelMetrics[metrics[numMetric]]
    IN  [ FunctionName |-> kernelName,
          Calls |-> Len(metrics),
          columns |-> [numMetric \in 1 .. Len(metrics) |->
                         IF aggregationData(numMetric).Count = 0 THEN 0
                         ELSE aggregationData(numMetric).Sum
                                 \div aggregationData(numMetric).Count],
          defined |-> /\ metrics # << >>
                      /\ \A numMetric \in 1 .. Len(metrics) :
                            aggregationData(numMetric).Count # 0
                      /\ Len(metrics) <= Len(widths) ]

reportRow_mutNoDivide(aggregations, kernelName, widths) ==
    LET kernelMetrics == aggregations[kernelName]
        metrics == KeysOf(kernelMetrics, SortedMetrics)
    IN  [ FunctionName |-> kernelName,
          Calls |-> IF metrics = << >> THEN 0 ELSE kernelMetrics[metrics[1]].Count,
          columns |-> [numMetric \in 1 .. Len(metrics) |-> kernelMetrics[metrics[numMetric]].Sum],
          defined |-> /\ metrics # << >>
                      /\ Len(metrics) <= Len(widths) ]

reportRow(aggregations, kernelName, widths) ==
    LET kernelMetrics == aggregations[kernelName]
        metrics == KeysOf(kernelMetrics, SortedMetrics)
        aggregationData(numMetric) == kernelMetrics[metrics[numMetric]]
    IN  [ FunctionName |-> kernelName,
          Calls |-> IF metrics = << >> THEN 0 ELSE kernelMetrics[metrics[1]].Count,
          columns |-> [numMetric \in 1 .. Len(metrics) |->
                         IF aggregationData(numMetric).Count = 0 THEN 0
                         ELSE aggregationData(numMetric).Sum
                                 \div aggregationData(numMetric).Count],
          defined |-> /\ metrics # << >>
                      /\ \A numMetric \in 1 .. Len(metrics) :
                            aggregationData(numMetric).Count # 0
                      /\ Len(metrics) <= Len(widths) ]

\* lines 357-393: what the call writes to os: nothing, or the title and the
\* header followed by one row per call-site.  Timing and EventBasedSampling are
\* config().DevicePerfCounterTiming and config().DevicePerfCounterEventBasedSampling.
reportMDAPICounters_mutNoTimingCheck(Timing, EventBasedSampling, aggregations) ==
    IF EventBasedSampling /\ DOMAIN aggregations # {}
    THEN [ header |-> headerWidths(aggregations),
           rows |-> [i \in 1 .. Len(KeysOf(aggregations, SortedNames)) |->
                       reportRow(aggregations, KeysOf(aggregations, SortedNames)[i],
                                 headerWidths(aggregations))] ]
    ELSE << >>

reportMDAPICounters(Timing, EventBasedSampling, aggregations) ==
    IF /\ Timing
       /\ EventBasedSampling
       /\ DOMAIN aggregations # {}
    THEN [ header |-> headerWidths(aggregations),
           rows |-> [i \in 1 .. Len(KeysOf(aggregations, SortedNames)) |->
                       reportRow(aggregations, KeysOf(aggregations, SortedNames)[i],
                                 headerWidths(aggregations))] ]
    ELSE << >>

\* A reportMDAPICounters call: the stream given to it starts empty.  The call
\* only reads the session and is not counted in ncalls.
CallReport(t) ==
    /\ ~aborted
    /\ pc[t] = "idle"
    /\ Alone(t)
    /\ loc' = [loc EXCEPT ![t] = [IdleLoc EXCEPT !.op = "reportMDAPICounters",
                                                  !.kind = "report"]]
    /\ pre' = << SessionState >>
    /\ os' = << >>
    /\ Goto(t, "rp_write")
    /\ UNCHANGED << envVars, cvVars, nReports, agIn, agPos, aborted, entryPoint, m_Mutex,
                    m_pMDHelper, mdStreamOpens, mdActiveConfig, mdPending, mdSaved,
                    m_MetricDump, m_MetricAggregations, ncalls, nSamples, ghostVars, nOpen >>

\* lines 357-393
RpWrite(t) ==
    /\ Running(t, "rp_write")
    /\ os' = reportMDAPICounters(timing, cfg.EBS, m_MetricAggregations)
    /\ Goto(t, "ret")
    /\ UNCHANGED << envVars, cvVars, nReports, agIn, agPos, aborted, entryPoint, m_Mutex,
                    m_pMDHelper, mdStreamOpens, mdActiveConfig, mdPending, mdSaved,
                    m_MetricDump, m_MetricAggregations, loc, pre, ncalls, nSamples,
                    ghostVars, nOpen >>

(***************************************************************************)
(* The aggregation as a function of the outcomes of the event queries.     *)
(***************************************************************************)
\* lines 303-338: an outcome is the call-site name, the code
\* clGetEventProfilingInfo answered and the results of the conversion; it is
\* aggregated when the code is CL_SUCCESS and numResults is not zero
getMDAPICountersFromEvent(aggregations, outcome) ==
    IF outcome.errorCode = CL_SUCCESS /\ outcome.results # << >>
    THEN AggregateMetrics(aggregations, outcome.name, outcome.results)
    ELSE aggregations

\* the outcomes: a failed query, an empty conversion, or a value for every metric
Outcomes ==
    { [name |-> n, errorCode |-> -7, results |-> << >>] : n \in Names }
    \cup { [name |-> n, errorCode |-> CL_SUCCESS, results |-> << >>] : n \in Names }
    \cup { [name |-> n, errorCode |-> CL_SUCCESS,
            results |-> [m \in MetricNames |-> IF m = "A" THEN 2 * v ELSE 2 * v + 1]] :
              n \in Names, v \in 1 .. MaxReports }

Aggregate ==
    /\ agPos < Len(agIn)
    /\ m_MetricAggregations' = getMDAPICountersFromEvent(m_MetricAggregations, agIn[agPos + 1])
    /\ agPos' = agPos + 1
    /\ os' = << >>
    /\ UNCHANGED << envVars, cvVars, agIn, nReports, aborted, entryPoint, m_Mutex,
                    m_pMDHelper, mdStreamOpens, mdActiveConfig, mdPending, mdSaved,
                    m_MetricDump, pc, loc, pre, ncalls, nSamples, ghostVars, nOpen >>

Report ==
    /\ os = << >>
    /\ os' = reportMDAPICounters(timing, cfg.EBS, m_MetricAggregations)
    /\ UNCHANGED << envVars, cvVars, agIn, agPos, nReports, aborted, entryPoint, m_Mutex,
                    m_pMDHelper, mdStreamOpens, mdActiveConfig, mdPending, mdSaved,
                    m_MetricDump, m_MetricAggregations, pc, loc, pre, ncalls, nSamples,
                    ghostVars, nOpen >>

(***************************************************************************)
(* The specifications.                                                     *)
(***************************************************************************)
InitSteps(t) ==
    \/ CallInit(t) \/ InCheck(t) \/ InConstruct(t) \/ InRecheck(t) \/ InStream(t)
    \/ InDump(t) \/ InOpen(t) \/ InNames(t) \/ InUnits(t)

CreateSteps(t) ==
    \/ CallCreateProps(t) \/ CallCreateBits(t) \/ CqResolve(t) \/ CqLock(t)
    \/ CqDispatch(t) \/ CqHelper(t) \/ CqActivate(t) \/ CqGetConf(t)
    \/ CqCreate(t) \/ CqUnlock(t)

StreamSteps(t) ==
    \/ CallStream(t) \/ StCheck(t) \/ StSave(t) \/ StPrint(t) \/ StReset(t)

EventSteps(t) ==
    \/ CallEvent(t) \/ EvCheck(t) \/ EvQuery(t) \/ EvPrint(t) \/ EvAggregate(t)

\* The session, its stream and its events: calls that do not overlap.
Next ==
    \/ \E t \in Threads : InitSteps(t) \/ StreamSteps(t) \/ EventSteps(t) \/ Return(t)
    \/ HardwareSample

Spec == Init /\ [][Next]_vars

\* The session and the queues created on it: calls that do not overlap.
NextQueue ==
    \E t \in Threads : InitSteps(t) \/ CreateSteps(t) \/ Return(t)

SpecQueue == Init /\ [][NextQueue]_vars

\* The same, with threads that create queues concurrently.
InitConc ==
    /\ InitState
    /\ overlap = "create"
    /\ timing = FALSE
    /\ agIn = << >>
    /\ cvIn = NullProps

SpecConc == InitConc /\ [][NextQueue]_vars

\* The session with threads that initialize it concurrently.
InitInitConc ==
    /\ InitState
    /\ overlap = "init"
    /\ timing = FALSE
    /\ agIn = << >>
    /\ cvIn = NullProps

NextInit ==
    \E t \in Threads : InitSteps(t) \/ Return(t)

SpecInitConc == InitInitConc /\ [][NextInit]_vars

\* The session and its stream, every report enqueued before the drain that
\* reads it.  A call that has started runs on: the calls are synchronous.
InitDrain ==
    /\ InitState
    /\ overlap = "drain"
    /\ timing = FALSE
    /\ agIn = << >>
    /\ cvIn = NullProps

NextDrain ==
    \/ \E t \in Threads : InitSteps(t) \/ StreamSteps(t) \/ Return(t)
    \/ HardwareSample

DrainRuns(t) == StCheck(t) \/ StSave(t) \/ StPrint(t) \/ StReset(t)

SpecDrain ==
    InitDrain /\ [][NextDrain]_vars /\ \A t \in Threads : WF_vars(DrainRuns(t))

\* The session, its events and the report: calls that do not overlap.
ReportSteps(t) == CallReport(t) \/ RpWrite(t)

InitReport ==
    /\ InitState
    /\ overlap = "none"
    /\ timing \in BOOLEAN
    /\ agIn = << >>
    /\ cvIn = NullProps

NextReport ==
    \E t \in Threads : InitSteps(t) \/ EventSteps(t) \/ ReportSteps(t) \/ Return(t)

SpecReport == InitReport /\ [][NextReport]_vars

\* The aggregation alone, on every sequence of outcomes of the bounds, with
\* event based sampling and the timing report configured.
InitAggregate ==
    /\ InitState
    /\ overlap = "none"
    /\ cfg = [EBS |-> TRUE, TBS |-> FALSE]
    /\ timing = TRUE
    /\ ~assertsOn
    /\ ~driverHasExt
    /\ agIn \in UNION { [1 .. n -> Outcomes] : n \in 0 .. MaxReports }
    /\ cvIn = NullProps

NextAggregate == Aggregate \/ Report

SpecAggregate == InitAggregate /\ [][NextAggregate]_vars

\* The translator alone, on every property list of the bounds.
InitConvert ==
    /\ InitState
    /\ overlap = "none"
    /\ timing = FALSE
    /\ agIn = << >>
    /\ cvIn \in PropLists(MaxPairs)

Convert ==
    /\ ~cvDone
    /\ cvOut' = convertPropertiesToOCL1_2(cvIn, 0)
    /\ cvDone' = TRUE
    /\ UNCHANGED << envVars, reportVars, cvIn, aborted, entryPoint, m_Mutex, m_pMDHelper,
                    mdStreamOpens, mdActiveConfig, mdPending, mdSaved, m_MetricDump,
                    m_MetricAggregations, pc, loc, pre, ncalls, nSamples,
                    ghostVars, nOpen >>

NextConvert == Convert

SpecConvert == InitConvert /\ [][NextConvert]_vars

(***************************************************************************)
(* The properties.                                                         *)
(***************************************************************************)
\* the key/value pairs of a property list
PairsOf(l) == IF l = NullProps THEN {} ELSE 1 .. ((Len(l) - 1) \div 2)
KeyOf(l, j) == l[2 * j - 1]
ValueOf(l, j) == l[2 * j]

\* The reference translator: what it accepts, and the bits it answers.
RefAccepts(l) ==
    \A j \in PairsOf(l) :
       /\ KeyOf(l, j) \in { CL_QUEUE_PROPERTIES, CL_QUEUE_PRIORITY_KHR, CL_QUEUE_THROTTLE_KHR }
       /\ KeyOf(l, j) = CL_QUEUE_PROPERTIES =>
             ValueOf(l, j) \in { 0, CL_QUEUE_PROFILING_ENABLE,
                                 CL_QUEUE_OUT_OF_ORDER_EXEC_MODE_ENABLE,
                                 CL_QUEUE_PROFILING_ENABLE
                                    + CL_QUEUE_OUT_OF_ORDER_EXEC_MODE_ENABLE }

RefHasBit(l, bit) ==
    \E j \in PairsOf(l) :
       KeyOf(l, j) = CL_QUEUE_PROPERTIES /\ (ValueOf(l, j) \div bit) % 2 = 1

RefBits(l) ==
    (IF RefHasBit(l, CL_QUEUE_OUT_OF_ORDER_EXEC_MODE_ENABLE)
     THEN CL_QUEUE_OUT_OF_ORDER_EXEC_MODE_ENABLE ELSE 0)
    + (IF RefHasBit(l, CL_QUEUE_PROFILING_ENABLE) THEN CL_QUEUE_PROFILING_ENABLE ELSE 0)

\* C1: on every zero-terminated property list, and on the null list,
\* convertPropertiesToOCL1_2 succeeds exactly when every key is
\* CL_QUEUE_PROPERTIES, CL_QUEUE_PRIORITY_KHR or CL_QUEUE_THROTTLE_KHR and every
\* CL_QUEUE_PROPERTIES value is 0, PROFILING_ENABLE, OUT_OF_ORDER_EXEC_MODE_ENABLE
\* or both, and on success the bitfield is the OR of the CL_QUEUE_PROPERTIES
\* values of the list (zero for the null list).
C1_ConvertAgreesWithReference ==
    cvDone =>
       /\ cvOut.ok = RefAccepts(cvIn)
       /\ cvOut.ok => cvOut.bits = RefBits(cvIn)

\* two CL_QUEUE_PROPERTIES pairs with different bits have been OR-ed
C1_Witness ==
    /\ cvDone
    /\ cvOut.ok
    /\ cvIn = << CL_QUEUE_PROPERTIES, CL_QUEUE_OUT_OF_ORDER_EXEC_MODE_ENABLE,
                 CL_QUEUE_PROPERTIES, CL_QUEUE_PROFILING_ENABLE, 0 >>
    /\ cvOut.bits = CL_QUEUE_PROFILING_ENABLE + CL_QUEUE_OUT_OF_ORDER_EXEC_MODE_ENABLE

\* the threads inside a createMDAPICommandQueue call
Creating(t) == loc[t].kind = "create"
Issued(t, operation) == operation \in loc[t].did

\* C2: a createMDAPICommandQueue call whose property list does not translate
\* is at its return with a null queue, having acquired no lock, called neither
\* ActivateMetricSet nor the backend's queue creation, and left the session
\* (its activation state included) as it was at the entry of the call.
C2_FailedTranslationHasNoEffect ==
    \A t \in Threads :
       Creating(t) /\ ~loc[t].converted =>
          /\ pc[t] = "ret"
          /\ loc[t].retVal = "NULL"
          /\ loc[t].did = {}
          /\ m_Mutex = NoThread
          /\ pre = << SessionState >>
          /\ mdActiveConfig = pre[1].activeConfig

\* a list is rejected on a session on which a queue could have been created
C2_Witness ==
    \E t \in Threads :
       /\ Creating(t) /\ ~loc[t].converted /\ pc[t] = "ret"
       /\ m_pMDHelper # "NULL" /\ entryPoint /\ mdActiveConfig # 0

\* the steps from ActivateMetricSet to the return of the backend's queue creation
ActivationSequence == { "cq_activate", "cq_getconf", "cq_create" }

\* C3: with createMDAPICommandQueue calls overlapping, at most one thread is in
\* the sequence activate, read the configuration id, create; and the
\* configuration id a thread passes to the backend is the one its own
\* activation produced.
C3_ActivateAndCreateAreSerialized ==
    /\ \A t, u \in Threads :
          pc[t] \in ActivationSequence /\ pc[u] \in ActivationSequence => t = u
    /\ \A t \in Threads :
          /\ pc[t] = "cq_create" => loc[t].configuration = loc[t].activated
          /\ loc[t].backend # << >> =>
                /\ loc[t].activated # 0
                /\ loc[t].backend[1].configuration = loc[t].activated

\* a thread is about to create its queue, under a configuration other than the
\* one an earlier caller left, while another thread waits for the lock
C3_Witness ==
    \E t, u \in Threads :
       /\ t # u
       /\ pc[t] = "cq_create"
       /\ pc[u] = "cq_lock"
       /\ m_Mutex = t
       /\ ncalls >= 3

\* C4: the backend's queue creation is invoked only with the entry point
\* resolved, the session handle set and ActivateMetricSet having succeeded; a
\* call that finds the entry point unresolved or the handle unset returns null
\* without an activation and with the session as it was at its entry; a call
\* whose activation fails returns null without invoking the backend.
C4_CreateOnlyWhenResolvedInitializedActivated ==
    \A t \in Threads :
       Creating(t) /\ pc[t] = "cq_unlock" =>
          /\ Issued(t, "clCreatePerfCountersCommandQueueINTEL") =>
                /\ entryPoint /\ loc[t].dispX
                /\ m_pMDHelper # "NULL"
                /\ Issued(t, "ActivateMetricSet") /\ loc[t].activated # 0
          /\ ~entryPoint \/ m_pMDHelper = "NULL" =>
                /\ loc[t].retVal = "NULL"
                /\ ~Issued(t, "ActivateMetricSet")
                /\ ~Issued(t, "clCreatePerfCountersCommandQueueINTEL")
                /\ pre = << SessionState >>
          /\ Issued(t, "ActivateMetricSet") /\ loc[t].activated = 0 =>
                /\ loc[t].retVal = "NULL"
                /\ ~Issued(t, "clCreatePerfCountersCommandQueueINTEL")

\* a call returns on an initialized session whose driver lacks the entry point
C4_Witness ==
    \E t \in Threads :
       /\ Creating(t) /\ pc[t] = "cq_unlock"
       /\ m_pMDHelper # "NULL" /\ ~entryPoint

\* C5: when createMDAPICommandQueue has invoked the backend's queue creation,
\* the queue it returns is the backend's and, when errcode_ret was given,
\* errcode_ret[0] is the backend's code, on success and on failure.
C5_BackendResultIsPropagated ==
    \A t \in Threads :
       loc[t].backend # << >> =>
          /\ loc[t].retVal = loc[t].backend[1].queue
          /\ loc[t].backend[1].errcode_ret =>
                loc[t].errOut = << loc[t].backend[1].code >>
          /\ ~loc[t].backend[1].errcode_ret => loc[t].errOut = << >>

\* the backend failed and its code reached the caller
C5_Witness ==
    \E t \in Threads :
       /\ loc[t].backend # << >>
       /\ loc[t].backend[1].queue = "NULL"
       /\ loc[t].backend[1].errcode_ret
       /\ loc[t].retVal = "NULL"
       /\ loc[t].errOut = << -5 >>

\* the rows of a kind in the dump file
RowsOfKind(kind) ==
    { i \in 1 .. Len(m_MetricDump.rows) : m_MetricDump.rows[i].kind = kind }

Quiescent == \A t \in Threads : pc[t] = "idle"

\* C6: however many initCustomPerfCounters calls have been made, the handle
\* has been constructed at most once, the dump file opened at most once and
\* each header row written at most once; between calls, with the handle set
\* and the dump file open, each of them has happened exactly once.
C6_InitializesOnce ==
    /\ nConstruct <= 1
    /\ nOpen <= 1
    /\ Cardinality(RowsOfKind("names")) <= 1
    /\ Cardinality(RowsOfKind("units")) <= 1
    /\ m_pMDHelper # "NULL" => nConstruct = 1
    /\ m_MetricDump.is_open => nOpen = 1
    /\ Quiescent /\ m_pMDHelper # "NULL" /\ m_MetricDump.is_open =>
          /\ Cardinality(RowsOfKind("names")) = 1
          /\ Cardinality(RowsOfKind("units")) = 1

\* a second initCustomPerfCounters call returns on an initialized session
C6_Witness ==
    \E t \in Threads :
       /\ pc[t] = "ret" /\ loc[t].kind = "init"
       /\ ~Issued(t, "Construct")
       /\ m_pMDHelper # "NULL" /\ m_MetricDump.is_open
       /\ nConstruct = 1 /\ nOpen = 1

\* C7: an initCustomPerfCounters call entered with the session handle set
\* changes no session state and issues no backend operation.
C7_InitOnExistingHandleIsNoOp ==
    \A t \in Threads :
       loc[t].kind = "init" /\ pre # << >> /\ pre[1].helper # "NULL" =>
          /\ pre = << SessionState >>
          /\ loc[t].did = {}

\* C8: the dump file holds nothing before it is opened; its first row is the
\* metric names, its second the metric units, written by the call that opened
\* it before anything else happens, and every other row is a data row.
C8_HeadersOnceAndFirst ==
    LET rows == m_MetricDump.rows
    IN  /\ ~m_MetricDump.is_open => rows = << >>
        /\ \A i \in 1 .. Len(rows) :
              rows[i].kind = (IF i = 1 THEN "names" ELSE IF i = 2 THEN "units" ELSE "data")
        /\ m_MetricDump.is_open /\ Len(rows) < 2 =>
              \E t \in Threads :
                 /\ Issued(t, "Open")
                 /\ pc[t] = (IF Len(rows) = 0 THEN "in_names" ELSE "in_units")

\* two data rows follow the two header rows
C8_Witness ==
    /\ Len(m_MetricDump.rows) = 4
    /\ m_MetricDump.rows[3].kind = "data"
    /\ m_MetricDump.rows[4].kind = "data"

\* C9: an initCustomPerfCounters call in which the backend construction failed
\* goes to its return without a fatal error, with the handle unset, no stream
\* opened, the dump file not opened and no row written.
C9_FailedConstructionLeavesSessionUnset ==
    \A t \in Threads :
       loc[t].kind = "init" /\ Issued(t, "ConstructFailed") =>
          /\ ~aborted
          /\ pc[t] \in { "in_recheck", "ret" }
          /\ m_pMDHelper = "NULL"
          /\ loc[t].did = { "ConstructFailed" }
          /\ mdStreamOpens = 0
          /\ ~m_MetricDump.is_open /\ m_MetricDump.rows = << >> /\ nOpen = 0
          /\ pre = << SessionState >>

\* the call has returned after a failed construction, in time based sampling
C9_Witness ==
    \E t \in Threads :
       /\ loc[t].kind = "init" /\ Issued(t, "ConstructFailed")
       /\ pc[t] = "ret"
       /\ cfg.TBS /\ ~cfg.EBS

\* C10: once a backend construction has failed, the session handle is unset in
\* every later state.
C10_FailedConstructionIsFinal ==
    constructFailed => m_pMDHelper = "NULL"

\* the sampling configuration names exactly one mode
OneMode == cfg.EBS # cfg.TBS

\* the steps of initCustomPerfCounters after the construction block
AfterConstruct == { "in_recheck", "in_stream", "in_dump", "in_open", "in_names", "in_units", "ret" }

\* C11: a first initCustomPerfCounters call with neither or with both of the
\* sampling flags set constructs no handle and picks no mode, and in a build
\* with assertions it ends in an assertion failure; a handle is constructed
\* only when exactly one of the two flags is set.
C11_ModeIsExactlyOneOrFatal ==
    /\ m_pMDHelper # "NULL" => OneMode
    /\ \A t \in Threads :
          /\ Issued(t, "Construct") \/ Issued(t, "ConstructFailed") => OneMode
          /\ ( /\ loc[t].kind = "init" /\ pc[t] \in AfterConstruct
               /\ pre # << >> /\ pre[1].helper = "NULL"
               /\ ~OneMode /\ assertsOn ) => aborted

\* C12: with initCustomPerfCounters calls overlapping, the handle is
\* constructed at most once, the dump file is opened at most once and each
\* header row is written at most once.
C12_ConcurrentInitInitializesOnce ==
    /\ nConstruct <= 1
    /\ nOpen <= 1
    /\ Cardinality(RowsOfKind("names")) <= 1
    /\ Cardinality(RowsOfKind("units")) <= 1

\* the steps of the loop of getMDAPICountersFromStream
InDrain == { "st_check", "st_save", "st_print", "st_reset" }

\* what holds while and after one drain, its reports enqueued beforehand
DrainHarvests ==
    \A t \in Threads :
       loc[t].kind = "stream" /\ ~aborted =>
          /\ pc[t] \in InDrain \cup { "ret" }
          /\ pc[t] = "st_save" => mdSaved = 0
          /\ pc[t] \in { "st_print", "st_reset" } => mdSaved > 0
          /\ pc[t] = "st_reset" /\ m_MetricDump.is_open =>
                m_MetricDump.rows[Len(m_MetricDump.rows)] = [kind |-> "data", tag |-> "TBS"]
          /\ pc[t] = "ret" =>
                /\ mdPending = 0
                /\ mdSaved = 0
                /\ m_pMDHelper # "NULL" => Issued(t, "SaveReportsFromStream")
                /\ Issued(t, "PrintMetricValues") /\ m_MetricDump.is_open =>
                      Len(m_MetricDump.rows) > Len(pre[1].dump.rows)

\* C13: a getMDAPICountersFromStream call made with its reports enqueued
\* beforehand comes to its return, and at the return no report is pending or
\* saved: every harvest was written as a row tagged "TBS" and cleared by
\* ResetSavedReports before the next SaveReportsFromStream.
C13_DrainConsumesEveryReport ==
    /\ []DrainHarvests
    /\ \A t \in Threads :
          (pc[t] \in InDrain /\ ~aborted) ~> (pc[t] = "ret")

\* a drain returns after two harvests, each written as a row
C13_Witness ==
    \E t \in Threads :
       /\ loc[t].kind = "stream" /\ pc[t] = "ret"
       /\ nSamples >= 2
       /\ mdPending = 0
       /\ m_MetricDump.is_open
       /\ Len(m_MetricDump.rows) = Len(pre[1].dump.rows) + 2

\* C14: a getMDAPICountersFromEvent call whose clGetEventProfilingInfo
\* answered an error code goes to its return without a fatal error, with the
\* aggregation table and the dump file as they were at the entry of the call.
C14_FailedQueryChangesNothing ==
    \A t \in Threads :
       loc[t].kind = "event" /\ Issued(t, "QueryFailed") =>
          /\ pc[t] = "ret"
          /\ ~aborted
          /\ loc[t].did = { "QueryFailed" }
          /\ m_MetricAggregations = pre[1].aggregations
          /\ m_MetricDump = pre[1].dump

\* the query fails for a call-site that already has an aggregated report
C14_Witness ==
    \E t \in Threads :
       /\ loc[t].kind = "event" /\ Issued(t, "QueryFailed") /\ pc[t] = "ret"
       /\ loc[t].name \in DOMAIN m_MetricAggregations
       /\ m_MetricDump.is_open /\ Len(m_MetricDump.rows) = 3

\* the outcomes aggregated so far for a call-site: the successful queries
\* that gave a report with results
RefReports(name) ==
    { i \in 1 .. agPos : /\ agIn[i].name = name
                         /\ agIn[i].errorCode = CL_SUCCESS
                         /\ agIn[i].results # << >> }

RECURSIVE RefTotal(_, _)
RefTotal(reports, metric) ==
    IF reports = {} THEN 0
    ELSE LET i == CHOOSE r \in reports : TRUE
         IN  agIn[i].results[metric] + RefTotal(reports \ { i }, metric)

\* C15: after any sequence of getMDAPICountersFromEvent outcomes, every
\* (call-site, metric) entry of the aggregation table holds as Sum the total
\* of the metric's values over the non-empty reports successfully extracted
\* for the call-site and as Count the number of those reports, and
\* reportMDAPICounters writes Sum / Count for it.
C15_SumAndCountOfReports ==
    /\ DOMAIN m_MetricAggregations = { n \in Names : RefReports(n) # {} }
    /\ \A n \in DOMAIN m_MetricAggregations :
          /\ DOMAIN m_MetricAggregations[n] = MetricNames
          /\ \A m \in MetricNames :
                /\ m_MetricAggregations[n][m].Sum = RefTotal(RefReports(n), m)
                /\ m_MetricAggregations[n][m].Count = Cardinality(RefReports(n))
    /\ os # << >> =>
          /\ Len(os.rows) = Cardinality(DOMAIN m_MetricAggregations)
          /\ \A i \in 1 .. Len(os.rows) :
                LET n == os.rows[i].FunctionName
                IN  /\ n \in DOMAIN m_MetricAggregations
                    /\ os.rows[i].Calls = Cardinality(RefReports(n))
                    /\ \A k \in 1 .. Len(SortedMetrics) :
                          os.rows[i].columns[k] =
                             RefTotal(RefReports(n), SortedMetrics[k])
                                \div Cardinality(RefReports(n))

\* values 2, 4, 6 of metric A for call-site foo: Sum 12, Count 3, mean 4
C15_Witness ==
    /\ agPos = 3
    /\ \A i \in 1 .. 3 : agIn[i].name = "foo" /\ agIn[i].results # << >>
                         /\ agIn[i].results["A"] = 2 * i
    /\ m_MetricAggregations["foo"]["A"] = [Sum |-> 12, Count |-> 3]
    /\ os # << >>
    /\ os.rows[1].FunctionName = "foo"
    /\ os.rows[1].Calls = 3
    /\ os.rows[1].columns[1] = 4

\* the threads at the return of a reportMDAPICounters call
Reported(t) == loc[t].kind = "report" /\ pc[t] = "ret"

\* C16: reportMDAPICounters writes nothing when DevicePerfCounterTiming or
\* event based sampling is off or the aggregation table is empty, writes
\* something when all three hold, and leaves the aggregation table (and the
\* rest of the session) as it found it.
C16_ReportOnlyWhenEnabledAndNonEmpty ==
    \A t \in Threads :
       /\ loc[t].kind = "report" => pre = << SessionState >>
       /\ Reported(t) =>
             (os # << >>) = (timing /\ cfg.EBS /\ DOMAIN m_MetricAggregations # {})

\* a report call returns having written nothing, the table holding a report
\* but the timing report switched off
C16_Witness ==
    \E t \in Threads :
       /\ Reported(t)
       /\ ~timing /\ cfg.EBS
       /\ DOMAIN m_MetricAggregations # {}
       /\ os = << >>

\* an extracted report is between its count and its aggregation
Aggregating == \E t \in Threads : pc[t] \in { "ev_print", "ev_aggregate" }

\* C17: all metrics of a call-site have the same Count, which is the number of
\* reports aggregated for the call-site, and it is the call count
\* reportMDAPICounters writes in the call-site's row.
C17_OneCountPerCallSite ==
    /\ \A n \in DOMAIN m_MetricAggregations :
          /\ \A m1, m2 \in DOMAIN m_MetricAggregations[n] :
                m_MetricAggregations[n][m1].Count = m_MetricAggregations[n][m2].Count
          /\ ~Aggregating =>
                \A m \in DOMAIN m_MetricAggregations[n] :
                   m_MetricAggregations[n][m].Count = nReports[n]
    /\ \A t \in Threads :
          Reported(t) /\ os # << >> =>
             \A i \in 1 .. Len(os.rows) :
                os.rows[i].Calls = nReports[os.rows[i].FunctionName]

\* the report shows two call-sites, one report each
C17_Witness ==
    \E t \in Threads :
       /\ Reported(t) /\ os # << >>
       /\ Len(os.rows) = 2
       /\ os.rows[1].Calls = 1 /\ os.rows[2].Calls = 1

\* C18: every call-site of the aggregation table has at least one metric and
\* every metric a Count of at least 1, so that reportMDAPICounters reads the
\* first metric of a call-site that has one and never divides by zero.
C18_NoEmptyCallSiteNoZeroCount ==
    /\ \A n \in DOMAIN m_MetricAggregations :
          /\ DOMAIN m_MetricAggregations[n] # {}
          /\ \A m \in DOMAIN m_MetricAggregations[n] :
                m_MetricAggregations[n][m].Count >= 1
    /\ \A t \in Threads :
          Reported(t) /\ os # << >> =>
             \A i \in 1 .. Len(os.rows) : os.rows[i].defined

\* an event call returns with an empty conversion, after a report was aggregated
C18_Witness ==
    \E t \in Threads :
       /\ loc[t].kind = "event" /\ pc[t] = "ret"
       /\ Issued(t, "GetMetricsFromReports") /\ loc[t].results = << >>
       /\ DOMAIN m_MetricAggregations # {}
       /\ loc[t].name \notin DOMAIN m_MetricAggregations

\* C20: no call-site of the aggregation table has more metrics than the first
\* call-site, from whose metrics reportMDAPICounters builds the column widths,
\* so that the index of every column of every row is in range.
C20_WidthsCoverEveryRow ==
    /\ \A n \in DOMAIN m_MetricAggregations :
          Cardinality(DOMAIN m_MetricAggregations[n])
             <= Cardinality(DOMAIN m_MetricAggregations[
                                    KeysOf(m_MetricAggregations, SortedNames)[1]])
    /\ \A t \in Threads :
          Reported(t) /\ os # << >> =>
             \A i \in 1 .. Len(os.rows) : Len(os.rows[i].columns) <= Len(os.header)

\* the report has a row for a call-site other than the first
C20_Witness ==
    \E t \in Threads :
       /\ Reported(t) /\ os # << >>
       /\ Len(os.rows) = 2
       /\ os.rows[2].FunctionName = "foo"
       /\ Len(os.rows[2].columns) = Len(os.header)

\* the backend's queue creation has been invoked by the call of the thread
InvokedBackend(t) == Issued(t, "clCreatePerfCountersCommandQueueINTEL")

\* C19: createMDAPICommandQueue writes errcode_ret[0] exactly when it has
\* invoked the backend's queue creation (and errcode_ret was given); a call
\* that ends without invoking it (entry point unresolved, handle unset,
\* activation failed, property list not translated) returns null and has not
\* written errcode_ret.
C19_ErrcodeWrittenOnlyWithBackendCall ==
    \A t \in Threads :
       Creating(t) =>
          /\ loc[t].errOut # << >> =>
                /\ InvokedBackend(t)
                /\ loc[t].backend # << >> /\ loc[t].backend[1].errcode_ret
          /\ InvokedBackend(t) /\ loc[t].backend[1].errcode_ret => loc[t].errOut # << >>
          /\ pc[t] \in { "cq_unlock", "ret" } /\ ~InvokedBackend(t) =>
                /\ loc[t].retVal = "NULL"
                /\ loc[t].errOut = << >>

\* a call is at its return after a failed activation
C19_Witness ==
    \E t \in Threads :
       /\ Creating(t) /\ pc[t] = "cq_unlock"
       /\ Issued(t, "ActivateMetricSet") /\ loc[t].activated = 0
       /\ ~InvokedBackend(t)
       /\ loc[t].retVal = "NULL" /\ loc[t].errOut = << >>

====
